---- MODULE Spec2Model ----
(***************************************************************************)
(* Model of the notebook keras-with-openvino-backend.ipynb: the linear     *)
(* script of its code cells (backend selection, model loading, predict     *)
(* calls, the sentiment demo) and the two functions the demo defines,      *)
(* get_sentiment and display_results.                                      *)
(*                                                                         *)
(* A Python str is modelled as a sequence of one-character strings, so     *)
(* that len(), padding and concatenation are computed character by         *)
(* character.  A printed line is the str handed to print(), without the    *)
(* newline.                                                                *)
(***************************************************************************)
EXTENDS Integers, Sequences, FiniteSets, TLC

\* ------------------------------------------------------------------------
\* String literals of the source
\* ------------------------------------------------------------------------
\* the literal 'Sentence' of the header f-string (8 characters)
HeaderSentence ==
    <<"S", "e", "n", "t", "e", "n", "c", "e">>

\* the literal 'Sentiment' of the header f-string (9 characters)
HeaderSentiment ==
    <<"S", "e", "n", "t", "i", "m", "e", "n", "t">>

\* the label "positive" (8 characters)
Positive ==
    <<"p", "o", "s", "i", "t", "i", "v", "e">>

\* the label "negative" (8 characters)
Negative ==
    <<"n", "e", "g", "a", "t", "i", "v", "e">>

\* sentences[0] (39 characters)
Sentence1 ==
    <<"t", "h", "e", " ", "m", "o", "v", "i", "e", " ", "w", "a", "s", " ", "a", " ", "c", "o", "m", "p", "l", "e", "t", "e", " ", "w", "a", "s", "t", "e", " ", "o", "f", " ", "t", "i", "m", "e", ".">>

\* sentences[1] (36 characters)
Sentence2 ==
    <<"t", "h", "e", " ", "p", "l", "o", "t", " ", "w", "a", "s", " ", "p", "r", "e", "d", "i", "c", "t", "a", "b", "l", "e", " ", "a", "n", "d", " ", "b", "o", "r", "i", "n", "g", ".">>

\* sentences[2] (48 characters)
Sentence3 ==
    <<"i", " ", "a", "b", "s", "o", "l", "u", "t", "e", "l", "y", " ", "l", "o", "v", "e", "d", " ", "t", "h", "i", "s", " ", "m", "o", "v", "i", "e", ",", " ", "i", "t", " ", "w", "a", "s", " ", "f", "a", "n", "t", "a", "s", "t", "i", "c", "!">>

\* sentences[3] (49 characters)
Sentence4 ==
    <<"a", "n", " ", "e", "x", "c", "e", "l", "l", "e", "n", "t", " ", "m", "o", "v", "i", "e", " ", "t", "h", "a", "t", " ", "i", " ", "w", "o", "u", "l", "d", " ", "h", "i", "g", "h", "l", "y", " ", "r", "e", "c", "o", "m", "m", "e", "n", "d", ".">>

\* the sentences list of the sentiment demo
DemoSentences ==
    <<Sentence1, Sentence2, Sentence3, Sentence4>>

\* the two spaces between the two replacement fields of the f-strings
Gap ==
    <<" ", " ">>

\* ------------------------------------------------------------------------
\* Inputs of a direct call of display_results
\* ------------------------------------------------------------------------
StrX ==
    <<"x">>

StrGoodOne ==
    <<"g", "o", "o", "d", " ", "o", "n", "e">>

StrLoved ==
    <<"i", " ", "l", "o", "v", "e", "d", " ", "i", "t", " ", "a", " ", "l", "o", "t">>

StrMixed ==
    <<"m", "i", "x", "e", "d">>

StrVeryPositive ==
    <<"v", "e", "r", "y", " ", "p", "o", "s", "i", "t", "i", "v", "e">>

\* longest number of records of a direct call of display_results
MaxRecords ==
    2

\* the class scores predict returns are drawn from -MaxLogit..MaxLogit
MaxLogit ==
    1

SentenceValues ==
    {<<>>, StrX, StrGoodOne, StrLoved}

SentimentValues ==
    {Positive, Negative, StrMixed, StrVeryPositive}

RecordValues ==
    [Sentence : SentenceValues, Sentiment : SentimentValues]

RECURSIVE ListsUpTo(_, _)
ListsUpTo(S, n) ==
    IF n = 0 THEN {<<>>}
    ELSE LET shorter == ListsUpTo(S, n - 1)
         IN  shorter \cup {Append(l, x) : l \in shorter, x \in S}

RecordLists ==
    ListsUpTo(RecordValues, MaxRecords)

Logits ==
    (0 - MaxLogit)..MaxLogit

\* ------------------------------------------------------------------------
\* Python and library operations
\* ------------------------------------------------------------------------

\* "-" * n, and the padding of a format spec: n copies of the character c
Repeat(c, n) ==
    [k \in 1..n |-> c]

\* variant: the padding is put in front of the str (the format spec :>)
LeftJustifyRight(s, width) ==
    IF Len(s) >= width THEN s ELSE Repeat(" ", width - Len(s)) \o s

\* the format spec :<{width} applied to a str: the str itself when it is at
\* least width long, else the str followed by spaces up to width
LeftJustify(s, width) ==
    IF Len(s) >= width THEN s ELSE s \o Repeat(" ", width - Len(s))

\* max(len(result[field]) for result in results), results non-empty
MaxFieldLength(rs, field) ==
    CHOOSE n \in {Len(rs[k][field]) : k \in 1..Len(rs)} :
        \A k \in 1..Len(rs) : Len(rs[k][field]) <= n

\* f"{'Sentence':<{max_sentence_length}}  {'Sentiment':<{max_sentiment_length}}"
HeaderLine(w1, w2) ==
    LeftJustify(HeaderSentence, w1) \o Gap \o LeftJustify(HeaderSentiment, w2)

\* variant: the rule covers the two columns and the gap only
SeparatorLineNoMargin(w1, w2) ==
    Repeat("-", w1 + w2 + 2)

\* "-" * (max_sentence_length + max_sentiment_length + 4)
SeparatorLine(w1, w2) ==
    Repeat("-", w1 + w2 + 4)

\* f"{sentence:<{max_sentence_length}}  {sentiment:<{max_sentiment_length}}"
RowLine(result, w1, w2) ==
    LeftJustify(result.Sentence, w1) \o Gap \o LeftJustify(result.Sentiment, w2)

RECURSIVE SumWeights(_, _)
SumWeights(z, n) ==
    IF n = 0 THEN 0 ELSE SumWeights(z, n - 1) + 2 ^ (z[n] + MaxLogit)

\* tf.nn.softmax over one row of class scores: each probability is the
\* exponential of its score over the sum of the exponentials, kept as an
\* exact fraction.  The base of the exponential is 2 instead of e (scores
\* are shifted by MaxLogit to keep the exponents natural numbers, which
\* leaves the fractions unchanged).
Softmax(z) ==
    [k \in 1..Len(z) |-> [num |-> 2 ^ (z[k] + MaxLogit), den |-> SumWeights(z, Len(z))]]

\* p < q for two fractions with positive denominators
FracLess(p, q) ==
    p.num * q.den < q.num * p.den

\* np.argmax over one row: the 0-based index of the first occurrence of
\* the largest value
ArgMax(p) ==
    (CHOOSE k \in 1..Len(p) :
        /\ \A m \in 1..Len(p) : ~FracLess(p[k], p[m])
        /\ \A m \in 1..(k - 1) : FracLess(p[m], p[k])) - 1

\* variant: the two labels are exchanged
SentimentLabelSwapped(index) ==
    IF index = 1 THEN Negative ELSE Positive

\* variant: the positive label is abbreviated
SentimentLabelShort(index) ==
    IF index = 1 THEN <<"p", "o", "s">> ELSE Negative

\* "positive" if sentiment == 1 else "negative"
SentimentLabel(index) ==
    IF index = 1 THEN Positive ELSE Negative

\* ------------------------------------------------------------------------
\* State
\* ------------------------------------------------------------------------
VARIABLES
    pc,                   \* the statement the interpreter executes next
    caller,               \* "notebook": the cells run top to bottom;
                          \* "direct": display_results applied to a list
    env,                  \* os.environ["KERAS_BACKEND"], "" when unset
    imported,             \* the modules imported so far
    bert,                 \* the model the name bert is bound to
    predict_calls,        \* predict calls completed (one progress bar each)
    sentences,            \* the list sentences
    results,              \* the list results / display_results' argument
    i,                    \* 1-based position of the for loop over sentences
    text,                 \* get_sentiment's argument
    predictions,          \* get_sentiment's local predictions (one row)
    probabilities,        \* get_sentiment's local probabilities (one row)
    sentiment,            \* get_sentiment's local sentiment, -1 when unset
    sentiment_label,      \* get_sentiment's local sentiment_label
    max_sentence_length,  \* display_results' local
    max_sentiment_length, \* display_results' local
    j,                    \* 1-based position of display_results' for loop
    output,               \* the lines display_results has printed
    exc                   \* the uncaught exception, "" when none

vars ==
    <<pc, caller, env, imported, bert, predict_calls, sentences, results, i,
      text, predictions, probabilities, sentiment, sentiment_label,
      max_sentence_length, max_sentiment_length, j, output, exc>>

kernel ==
    <<env, imported, bert, predict_calls>>

demo ==
    <<sentences, results, i>>

gs_locals ==
    <<text, predictions, probabilities, sentiment, sentiment_label>>

dr_locals ==
    <<max_sentence_length, max_sentiment_length, j, output>>

NoModel ==
    [preset |-> "", num_classes |-> 0, preprocessor |-> FALSE]

Fresh ==
    /\ env = ""
    /\ imported = {}
    /\ bert = NoModel
    /\ predict_calls = 0
    /\ sentences = <<>>
    /\ i = 1
    /\ text = <<>>
    /\ predictions = <<>>
    /\ probabilities = <<>>
    /\ sentiment = -1
    /\ sentiment_label = <<>>
    /\ max_sentence_length = 0
    /\ max_sentiment_length = 0
    /\ j = 1
    /\ output = <<>>
    /\ exc = ""

\* a fresh kernel about to run the first code cell
InitNotebook ==
    /\ Fresh
    /\ caller = "notebook"
    /\ pc = "import_os"
    /\ results = <<>>

\* display_results about to run on a list of records
InitDirect ==
    /\ Fresh
    /\ caller = "direct"
    /\ pc = "dr_max_sentence"
    /\ results \in RecordLists

Init ==
    InitNotebook \/ InitDirect

\* ------------------------------------------------------------------------
\* Cell 1: backend selection and imports
\* ------------------------------------------------------------------------
Import(at, module, next) ==
    /\ pc = at
    /\ imported' = imported \cup {module}
    /\ pc' = next
    /\ UNCHANGED <<caller, env, bert, predict_calls, demo, gs_locals, dr_locals, exc>>

ImportOs ==
    Import("import_os", "os", "set_backend")

SetBackend ==
    /\ pc = "set_backend"
    /\ env' = "openvino"
    /\ pc' = "import_numpy"
    /\ UNCHANGED <<caller, imported, bert, predict_calls, demo, gs_locals, dr_locals, exc>>

ImportNumpy ==
    Import("import_numpy", "numpy", "import_keras_hub")

ImportKerasHub ==
    Import("import_keras_hub", "keras_hub", "from_preset_base")

\* ------------------------------------------------------------------------
\* Cells 2 to 4: the 4-class model on raw strings and on token arrays.
\* The scores these predict calls return are displayed and read by no
\* later statement; only the calls are modelled.
\* ------------------------------------------------------------------------
FromPreset(at, preset, num_classes, preprocessor, next) ==
    /\ pc = at
    /\ bert' = [preset |-> preset, num_classes |-> num_classes,
                preprocessor |-> preprocessor]
    /\ pc' = next
    /\ UNCHANGED <<caller, env, imported, predict_calls, demo, gs_locals, dr_locals, exc>>

FromPresetBase ==
    FromPreset("from_preset_base", "bert_base_en_uncased", 4, TRUE, "predict_raw")

PredictCell(at, next) ==
    /\ pc = at
    /\ predict_calls' = predict_calls + 1
    /\ pc' = next
    /\ UNCHANGED <<caller, env, imported, bert, demo, gs_locals, dr_locals, exc>>

PredictRaw ==
    PredictCell("predict_raw", "from_preset_tokens")

FromPresetTokens ==
    FromPreset("from_preset_tokens", "bert_base_en_uncased", 4, FALSE, "predict_tokens")

PredictTokens ==
    PredictCell("predict_tokens", "import_tensorflow")

\* ------------------------------------------------------------------------
\* Cell 5: the sentiment demo
\* ------------------------------------------------------------------------
ImportTensorflow ==
    Import("import_tensorflow", "tensorflow", "from_preset_sst2")

FromPresetSst2 ==
    FromPreset("from_preset_sst2", "bert_tiny_en_uncased_sst2", 2, TRUE, "setup")

\* sentences = [...]; the two defs; results = []
Setup ==
    /\ pc = "setup"
    /\ sentences' = DemoSentences
    /\ results' = <<>>
    /\ i' = 1
    /\ pc' = "loop"
    /\ UNCHANGED <<caller, kernel, gs_locals, dr_locals, exc>>

\* for sentence in sentences: the next sentence is handed to get_sentiment
LoopCall ==
    /\ pc = "loop"
    /\ i <= Len(sentences)
    /\ text' = sentences[i]
    /\ pc' = "gs_predict"
    /\ UNCHANGED <<caller, kernel, demo, predictions, probabilities, sentiment,
                   sentiment_label, dr_locals, exc>>

\* variant: the table is displayed before the last sentence is classified
LoopExitEarly ==
    /\ pc = "loop"
    /\ i >= Len(sentences)
    /\ pc' = "dr_max_sentence"
    /\ UNCHANGED <<caller, kernel, demo, gs_locals, dr_locals, exc>>

\* the loop is exhausted: display_results(results)
LoopExit ==
    /\ pc = "loop"
    /\ i > Len(sentences)
    /\ pc' = "dr_max_sentence"
    /\ UNCHANGED <<caller, kernel, demo, gs_locals, dr_locals, exc>>

\* predictions = bert.predict([text]): one row of num_classes scores
GsPredict ==
    /\ pc = "gs_predict"
    /\ \E z \in [1..bert.num_classes -> Logits] : predictions' = z
    /\ predict_calls' = predict_calls + 1
    /\ pc' = "gs_softmax"
    /\ UNCHANGED <<caller, env, imported, bert, demo, text, probabilities,
                   sentiment, sentiment_label, dr_locals, exc>>

\* probabilities = tf.nn.softmax(predictions, axis=1).numpy()
GsSoftmax ==
    /\ pc = "gs_softmax"
    /\ probabilities' = Softmax(predictions)
    /\ pc' = "gs_argmax"
    /\ UNCHANGED <<caller, kernel, demo, text, predictions, sentiment,
                   sentiment_label, dr_locals, exc>>

\* sentiment = np.argmax(probabilities, axis=1)[0]
GsArgmax ==
    /\ pc = "gs_argmax"
    /\ sentiment' = ArgMax(probabilities)
    /\ pc' = "gs_label"
    /\ UNCHANGED <<caller, kernel, demo, text, predictions, probabilities,
                   sentiment_label, dr_locals, exc>>

\* sentiment_label = "positive" if sentiment == 1 else "negative"
GsLabel ==
    /\ pc = "gs_label"
    /\ sentiment_label' = SentimentLabel(sentiment)
    /\ pc' = "append"
    /\ UNCHANGED <<caller, kernel, demo, text, predictions, probabilities,
                   sentiment, dr_locals, exc>>

\* the record appended for a sentence and the label get_sentiment returned
NewRecord(sentence, label) ==
    [Sentence |-> sentence, Sentiment |-> label]

\* return sentiment_label; results.append({...}); next iteration
LoopAppend ==
    /\ pc = "append"
    /\ results' = Append(results, NewRecord(sentences[i], sentiment_label))
    /\ i' = i + 1
    /\ pc' = "loop"
    /\ UNCHANGED <<caller, kernel, sentences, gs_locals, dr_locals, exc>>

\* ------------------------------------------------------------------------
\* display_results(results)
\* ------------------------------------------------------------------------

\* variant: max(..., default=0), which raises nothing on an empty list
DrMaxSentenceDefault ==
    /\ pc = "dr_max_sentence"
    /\ max_sentence_length' =
          (IF results = <<>> THEN 0 ELSE MaxFieldLength(results, "Sentence"))
    /\ pc' = "dr_max_sentiment"
    /\ UNCHANGED <<caller, kernel, demo, gs_locals, max_sentiment_length, j, output, exc>>

\* max_sentence_length = max(len(result["Sentence"]) for result in results);
\* max() of an empty sequence raises ValueError
DrMaxSentence ==
    /\ pc = "dr_max_sentence"
    /\ IF results = <<>>
       THEN /\ exc' = "ValueError"
            /\ pc' = "terminated"
            /\ UNCHANGED max_sentence_length
       ELSE /\ max_sentence_length' = MaxFieldLength(results, "Sentence")
            /\ pc' = "dr_max_sentiment"
            /\ UNCHANGED exc
    /\ UNCHANGED <<caller, kernel, demo, gs_locals, max_sentiment_length, j, output>>

\* max_sentiment_length = max(len(result["Sentiment"]) for result in results)
DrMaxSentiment ==
    /\ pc = "dr_max_sentiment"
    /\ max_sentiment_length' = MaxFieldLength(results, "Sentiment")
    /\ pc' = "dr_header"
    /\ UNCHANGED <<caller, kernel, demo, gs_locals, max_sentence_length, j, output, exc>>

\* print(header)
DrHeader ==
    /\ pc = "dr_header"
    /\ output' = Append(output, HeaderLine(max_sentence_length, max_sentiment_length))
    /\ pc' = "dr_separator"
    /\ UNCHANGED <<caller, kernel, demo, gs_locals, max_sentence_length,
                   max_sentiment_length, j, exc>>

\* print("-" * ...)
DrSeparator ==
    /\ pc = "dr_separator"
    /\ output' = Append(output, SeparatorLine(max_sentence_length, max_sentiment_length))
    /\ j' = 1
    /\ pc' = "dr_rows"
    /\ UNCHANGED <<caller, kernel, demo, gs_locals, max_sentence_length,
                   max_sentiment_length, exc>>

\* variant: the records are visited last to first
RowAtReversed(rs, k) ==
    rs[Len(rs) + 1 - k]

\* the record the for loop of display_results visits at step k
RowAt(rs, k) ==
    rs[k]

\* for result in results: print(row)
DrRow ==
    /\ pc = "dr_rows"
    /\ j <= Len(results)
    /\ output' = Append(output, RowLine(RowAt(results, j), max_sentence_length,
                                        max_sentiment_length))
    /\ j' = j + 1
    /\ UNCHANGED <<pc, caller, kernel, demo, gs_locals, max_sentence_length,
                   max_sentiment_length, exc>>

\* the for loop is exhausted: display_results returns, the run is over
DrReturn ==
    /\ pc = "dr_rows"
    /\ j > Len(results)
    /\ pc' = "done"
    /\ UNCHANGED <<caller, kernel, demo, gs_locals, dr_locals, exc>>

\* ------------------------------------------------------------------------
\* Failure of a call into keras_hub, keras or tensorflow
\* ------------------------------------------------------------------------
ExternalCalls ==
    {"import_keras_hub", "from_preset_base", "predict_raw", "from_preset_tokens",
     "predict_tokens", "import_tensorflow", "from_preset_sst2", "gs_predict",
     "gs_softmax"}

\* variant: the body of the demo's loop is wrapped in try/except and a
\* failure inside get_sentiment skips to the next sentence
RaiseSwallowed ==
    /\ pc \in ExternalCalls
    /\ exc' = pc
    /\ IF pc \in {"gs_predict", "gs_softmax"}
       THEN /\ pc' = "loop"
            /\ i' = i + 1
       ELSE /\ pc' = "terminated"
            /\ UNCHANGED i
    /\ UNCHANGED <<caller, kernel, sentences, results, gs_locals, dr_locals>>

\* the call raises; no statement of the notebook is inside a try, so the
\* exception propagates and the run stops
Raise ==
    /\ pc \in ExternalCalls
    /\ exc' = pc
    /\ pc' = "terminated"
    /\ UNCHANGED <<caller, kernel, demo, gs_locals, dr_locals>>

Next ==
    \/ ImportOs
    \/ SetBackend
    \/ ImportNumpy
    \/ ImportKerasHub
    \/ FromPresetBase
    \/ PredictRaw
    \/ FromPresetTokens
    \/ PredictTokens
    \/ ImportTensorflow
    \/ FromPresetSst2
    \/ Setup
    \/ LoopCall
    \/ LoopExit
    \/ GsPredict
    \/ GsSoftmax
    \/ GsArgmax
    \/ GsLabel
    \/ LoopAppend
    \/ DrMaxSentence
    \/ DrMaxSentiment
    \/ DrHeader
    \/ DrSeparator
    \/ DrRow
    \/ DrReturn
    \/ Raise

Spec ==
    Init /\ [][Next]_vars

TypeOK ==
    /\ pc \in STRING
    /\ caller \in {"notebook", "direct"}
    /\ predict_calls \in Nat
    /\ sentiment \in {-1, 0, 1}
    /\ i \in 1..(Len(sentences) + 1)
    /\ j \in 1..(Len(results) + 1)

\* ------------------------------------------------------------------------
\* Properties
\* ------------------------------------------------------------------------

\* the largest len(record[field]) over the first n records of rs, 0 for none
RECURSIVE WidestOf(_, _, _)
WidestOf(rs, field, n) ==
    IF n = 0 THEN 0
    ELSE LET rest == WidestOf(rs, field, n - 1)
             here == Len(rs[n][field])
         IN  IF here > rest THEN here ELSE rest

WidestSentence ==
    WidestOf(results, "Sentence", Len(results))

WidestSentiment ==
    WidestOf(results, "Sentiment", Len(results))

\* line is cell, padded with spaces to width, starting at column from
CellAt(line, from, cell, width) ==
    /\ Len(cell) <= width
    /\ from + width - 1 <= Len(line)
    /\ \A m \in 1..width :
          line[from + m - 1] = (IF m <= Len(cell) THEN cell[m] ELSE " ")

\* line is two cells of widths w1 and w2 with the two-space gap between
TwoCells(line, left, w1, right, w2) ==
    /\ Len(line) = w1 + 2 + w2
    /\ CellAt(line, 1, left, w1)
    /\ CellAt(line, w1 + 1, <<>>, 2)
    /\ CellAt(line, w1 + 3, right, w2)

HeaderPrinted ==
    Len(output) >= 1

SeparatorPrinted ==
    Len(output) >= 2

RowPrinted(k) ==
    Len(output) >= k + 2

\* C1: once the header is printed, it is the 'Sentence' cell exactly as wide
\* as the longest Sentence of the records, the two-space gap, and the
\* 'Sentiment' cell exactly as wide as the longest Sentiment; the line is
\* max_sentence_length + 2 + max_sentiment_length characters long.
C1_HeaderWidthsAreMaxima ==
    HeaderPrinted =>
        TwoCells(output[1], HeaderSentence, WidestSentence,
                 HeaderSentiment, WidestSentiment)

\* C2: every printed data row is the record's full sentence padded with
\* trailing spaces to the longest Sentence, the two-space gap, and the
\* record's full sentiment padded with trailing spaces to the longest
\* Sentiment; so every row is max_sentence_length + 2 + max_sentiment_length
\* characters long and no field is truncated.
C2_RowsPaddedToColumnWidths ==
    \A k \in 1..Len(results) :
        RowPrinted(k) =>
            TwoCells(output[k + 2], results[k].Sentence, WidestSentence,
                     results[k].Sentiment, WidestSentiment)

\* a row whose sentence and whose sentiment both needed padding is printed
C2_Witness ==
    /\ caller = "direct"
    /\ pc = "done"
    /\ \E k \in 1..Len(results) :
          /\ Len(results[k].Sentence) < WidestSentence
          /\ Len(results[k].Sentiment) < WidestSentiment

\* C3: the separator line consists of '-' characters only and is (longest
\* Sentence + longest Sentiment + 4) characters long.
C3_SeparatorLength ==
    SeparatorPrinted =>
        /\ Len(output[2]) = WidestSentence + WidestSentiment + 4
        /\ \A m \in 1..Len(output[2]) : output[2][m] = "-"

\* the separator is printed for two records of different widths
C3_Witness ==
    /\ caller = "direct"
    /\ SeparatorPrinted
    /\ Len(results) = 2
    /\ Len(results[1].Sentence) # Len(results[2].Sentence)
    /\ Len(results[1].Sentiment) # Len(results[2].Sentiment)

SingleRecordX ==
    <<[Sentence |-> StrX, Sentiment |-> Positive]>>

\* C4: for the single record {"x", "positive"} the header cells are 1 and 8
\* characters wide and the data row is "x", the gap, "positive".
C4_SingleRecordExample ==
    (caller = "direct" /\ results = SingleRecordX) =>
        /\ HeaderPrinted =>
              TwoCells(output[1], HeaderSentence, 1, HeaderSentiment, 8)
        /\ RowPrinted(1) => output[3] = StrX \o Gap \o Positive

\* C5: the label get_sentiment returns is "positive" if the index argmax
\* selected is 1 and "negative" otherwise, where the selected index is one
\* of a largest probability (in a tie, whichever argmax selected).
C5_LabelFollowsArgmax ==
    pc = "append" =>
        /\ sentiment \in 0..(Len(probabilities) - 1)
        /\ \A m \in 1..Len(probabilities) :
              ~FracLess(probabilities[sentiment + 1], probabilities[m])
        /\ sentiment = 1 => sentiment_label = Positive
        /\ sentiment # 1 => sentiment_label = Negative

\* get_sentiment has labelled a tie of the two classes
C5_Witness ==
    /\ pc = "append"
    /\ predictions[1] = predictions[2]
    /\ sentiment_label = Negative

DisplayStarted ==
    pc \in {"dr_max_sentence", "dr_max_sentiment", "dr_header", "dr_separator",
            "dr_rows", "done"}

\* C6: keras_hub is imported only after KERAS_BACKEND is set to openvino; a
\* predict call is made only on a model instantiated from a preset; in the
\* demo the table's first line is printed only after one predict call per
\* sentence has completed.
C6_FixedOrder ==
    /\ "keras_hub" \in imported => env = "openvino"
    /\ pc \in {"predict_raw", "predict_tokens", "gs_predict"} => bert # NoModel
    /\ predict_calls > 0 => bert # NoModel
    /\ pc = "gs_predict" => bert.preset = "bert_tiny_en_uncased_sst2"
    /\ (caller = "notebook" /\ HeaderPrinted) =>
          /\ Len(results) = Len(sentences)
          /\ predict_calls = 2 + Len(sentences)

\* the notebook has printed the first line of the table
C6_Witness ==
    /\ caller = "notebook"
    /\ pc = "dr_separator"
    /\ Len(output) = 1
    /\ "keras_hub" \in imported

\* C7: once a library call inside get_sentiment has raised, the run is
\* terminated: no statement can execute any more, the sentence that failed
\* and the ones after it have no record, and nothing of the table is
\* printed.
C7_FailureTerminates ==
    exc \in {"gs_predict", "gs_softmax"} =>
        /\ pc = "terminated"
        /\ ~ENABLED Next
        /\ Len(results) = i - 1
        /\ Len(results) < Len(sentences)
        /\ output = <<>>

\* predict raised on the third sentence of the demo
C7_Witness ==
    /\ exc = "gs_predict"
    /\ pc = "terminated"
    /\ Len(results) = 2

\* C8: display_results prints the header first, the separator second, then
\* one row per record in the order of the list, n + 2 lines in all; in the
\* demo results holds one record per sentence, in order, with the sentence
\* unchanged.
C8_LinesInOrder ==
    /\ Len(output) <= Len(results) + 2
    /\ pc = "done" => Len(output) = Len(results) + 2
    /\ HeaderPrinted => CellAt(output[1], 1, HeaderSentence, Len(HeaderSentence))
    /\ SeparatorPrinted => (output[2] # <<>> /\ output[2][1] = "-")
    /\ \A k \in 1..Len(results) :
          RowPrinted(k) =>
              /\ CellAt(output[k + 2], 1, results[k].Sentence, WidestSentence)
              /\ CellAt(output[k + 2], WidestSentence + 3, results[k].Sentiment,
                        WidestSentiment)
    /\ caller = "notebook" =>
          /\ Len(results) <= Len(sentences)
          /\ \A k \in 1..Len(results) : results[k].Sentence = sentences[k]
          /\ DisplayStarted => Len(results) = Len(sentences)

\* display_results has returned after printing two different records
C8_Witness ==
    /\ pc = "done"
    /\ Len(results) >= 2
    /\ results[1] # results[2]
    /\ Len(output) = Len(results) + 2

\* C9: in the demo every record's Sentiment is "positive" or "negative",
\* both 8 characters long, and the max_sentiment_length display_results
\* computes is 8.
C9_SentimentLengthIsEight ==
    caller = "notebook" =>
        /\ \A k \in 1..Len(results) :
              /\ results[k].Sentiment \in {Positive, Negative}
              /\ Len(results[k].Sentiment) = 8
        /\ pc \in {"dr_header", "dr_separator", "dr_rows", "done"} =>
              max_sentiment_length = 8

\* the demo has computed max_sentiment_length over both labels
C9_Witness ==
    /\ caller = "notebook"
    /\ pc = "dr_header"
    /\ \E k \in 1..Len(results) : results[k].Sentiment = Positive
    /\ \E k \in 1..Len(results) : results[k].Sentiment = Negative

\* C10: display_results on an empty list ends in the error max() raises
\* while the first column width is computed, with nothing printed: neither
\* the header nor the separator.
C10_EmptyListRaises ==
    results = <<>> =>
        /\ output = <<>>
        /\ pc \notin {"dr_max_sentiment", "dr_header", "dr_separator", "dr_rows", "done"}
        /\ (caller = "direct" /\ pc # "dr_max_sentence") =>
              (pc = "terminated" /\ exc = "ValueError")

\* display_results was applied to the empty list and has raised
C10_Witness ==
    /\ caller = "direct"
    /\ results = <<>>
    /\ pc = "terminated"
    /\ exc = "ValueError"
====
